---- MODULE Spec2Model ----
(***************************************************************************)
(* A model of the speedrun timer of livesplit-core                        *)
(* (src/src/timing/timer/mod.rs): the Timer struct, its phase machine,    *)
(* the time computation over the monotonic and the UTC anchors, the split *)
(* controller operations, the TimerState projection and the change        *)
(* callback.                                                              *)
(*                                                                        *)
(* Time is counted in whole clock ticks.  A TimeStamp (monotonic) and an  *)
(* AtomicDateTime (UTC) are integers on two clocks that advance at the    *)
(* same rate from different origins; a TimeSpan is an integer difference. *)
(* A handler reads both clocks at the instant it is called.               *)
(*                                                                        *)
(* Option<T> is a sequence of length at most one: None is <<>> and        *)
(* Some(x) is <<x>>.                                                      *)
(***************************************************************************)
EXTENDS Integers, Sequences, FiniteSets, TLC

\* ------------------------------------------------------------- bounds
\* The clock runs from 0 to MaxTime ticks.
MaxTime == 2
\* The origin of the UTC clock, in ticks after the origin of the monotonic one.
UtcEpoch == 10
\* Attempts started on one timer.
MaxAttempts == 1
\* The numbers of segments of the input runs; a run of none is rejected.
RunLengths == {0, 1, 2}
\* The start offsets of the input runs.
Offsets == {-1, 0}

\* ------------------------------------------------------------- Option
None == <<>>
Some(x) == <<x>>
IsSome(o) == o # <<>>
Unwrap(o) == o[1]

\* ------------------------------------------------------------- Time
\* Time::new(): both timing methods absent.
TimeNew == [real_time |-> None, game_time |-> None]

\* personal_best::NAME and the name of a comparison generator.
PersonalBestName == "Personal Best"
BestSegmentsName == "Best Segments"

\* ------------------------------------------------------------- Run
\* Segment::new(name): no split time, no best segment, no PB split, no history.
SegmentNew == [split_time |-> TimeNew,
               best_segment_time |-> TimeNew,
               personal_best_split_time |-> TimeNew,
               segment_history |-> <<>>]

\* Segment::clear_split_info: the split time (both methods) is removed.
clear_split_info(seg) == [seg EXCEPT !.split_time = TimeNew]

\* A run as handed to Timer::new or replace_run: n fresh segments and an offset.
RunNew(n, off) == [segments |-> [i \in 1..n |-> SegmentNew],
                   offset |-> off,
                   comparisons |-> <<PersonalBestName, BestSegmentsName>>,
                   attempt_count |-> 0,
                   attempt_history |-> <<>>,
                   has_been_modified |-> FALSE]

\* The runs a caller may hand in; those with no segment are rejected.
InputRuns == {RunNew(n, off) : n \in RunLengths, off \in Offsets}

run_len(run) == Len(run.segments)
run_is_empty(run) == run_len(run) = 0

\* Run::start_next_run
start_next_run(run) == [run EXCEPT !.attempt_count = @ + 1, !.has_been_modified = TRUE]

\* Run::mark_as_modified
mark_as_modified(run) == [run EXCEPT !.has_been_modified = TRUE]

\* Run::fix_splits and Run::regenerate_comparisons act on the comparison times
\* the run derives; the split times, best segments and PB splits kept here
\* are left as they are.
fix_splits(run) == run
regenerate_comparisons(run) == run

\* ------------------------------------------------------------- clocks
VARIABLES
    timer,          \* the Timer struct
    now,            \* TimeStamp::now()
    now_utc,        \* AtomicDateTime::now()
    cb_log,         \* the TimerStates the callback got during the last operation
    running_for,    \* ticks of this attempt spent in phase Running
    paused_for,     \* ticks of this attempt spent in phase Paused
    paused_undone,  \* paused_for at the last undo_all_pauses of this attempt
    ever_paused,    \* whether pause() took effect in this attempt
    attempts,       \* attempts started since Timer::new
    shared          \* the RwLock of a SharedTimer and the threads that use it

vars == <<timer, now, now_utc, cb_log,
          running_for, paused_for, paused_undone, ever_paused, attempts, shared>>

\* The threads that hold a clone of the SharedTimer.
Threads == {1, 2}

\* No thread holds the lock, none is in an operation, nothing was delivered.
\* To each thread: where it is (pc), the operation it is in (op), the ticket
\* it drew when it got the lock, and the TimerStates its operation has built
\* for the callback and not yet handed over (pending).
SharedInit ==
    [writer |-> <<>>,
     readers |-> {},
     pc |-> [th \in Threads |-> "idle"],
     op |-> [th \in Threads |-> "none"],
     ticket |-> [th \in Threads |-> 0],
     pending |-> [th \in Threads |-> <<>>],
     tickets |-> 0,
     delivered |-> <<>>]

\* What a handler is given of the two clocks.
Clk == [now |-> now, utc |-> now_utc]

\* A handler returns the timer it leaves and the TimerStates it handed to the
\* change callback, in order.
Ret(t, log) == [t |-> t, log |-> log]

\* ------------------------------------------------------------- enums
NotRunning == "NotRunning"
Running == "Running"
Paused == "Paused"
Ended == "Ended"

RealTime == "RealTime"
GameTime == "GameTime"

\* Option<usize> ordering as derived by Rust: None is less than every Some.
OptLt(a, b) == IF a = None THEN b # None ELSE b # None /\ Unwrap(a) < Unwrap(b)

\* usize::checked_sub(1)
checked_sub1(n) == IF n >= 1 THEN Some(n - 1) ELSE None

\* Option<TimeSpan>::unwrap_or_default
unwrap_or_default(o) == IF IsSome(o) THEN Unwrap(o) ELSE 0

\* catch! { a? - b? }
OptSub(a, b) == IF IsSome(a) /\ IsSome(b) THEN Some(Unwrap(a) - Unwrap(b)) ELSE None
\* catch! { a? + b? }
OptAdd(a, b) == IF IsSome(a) /\ IsSome(b) THEN Some(Unwrap(a) + Unwrap(b)) ELSE None

\* Time += Time and Time::op(a, b, |a, b| a - b): per timing method, present
\* only when both operands are.
TimeAdd(a, b) == [real_time |-> OptAdd(a.real_time, b.real_time),
                  game_time |-> OptAdd(a.game_time, b.game_time)]
TimeSub(a, b) == [real_time |-> OptSub(a.real_time, b.real_time),
                  game_time |-> OptSub(a.game_time, b.game_time)]

\* Time[method]
TimeAt(time, method) == IF method = RealTime THEN time.real_time ELSE time.game_time

\* ------------------------------------------------------------- TimerState
\* TimeSpan -> f64 seconds and back.  A tick is a whole number of seconds, which
\* an f64 holds exactly; the f64 is kept apart from the TimeSpan it came from.
ts_to_f64(ts) == <<"f64", ts>>
f64_to_ts(v) == v[2]

\* AtomicDateTime -> ADT (ISO 8601 text and the synced flag) and back.
\* AtomicDateTime::now() is never synced.
adt_to_ADT(adt) == [time |-> <<"Iso8601", adt>>, synced |-> FALSE]
ADT_to_adt(a) == a.time[2]

OptMap(F(_), o) == IF IsSome(o) THEN Some(F(Unwrap(o))) ELSE None

\* From<Time> for Time64 and From<&Time64> for Time
Time_to_Time64(item) == [real_time |-> OptMap(ts_to_f64, item.real_time),
                         game_time |-> OptMap(ts_to_f64, item.game_time)]
Time64_to_Time(item) == [real_time |-> OptMap(f64_to_ts, item.real_time),
                         game_time |-> OptMap(f64_to_ts, item.game_time)]

\* From<&str> for TimerPhase; any other text panics.
phase_from_str(val) ==
    IF val = "NotRunning" THEN NotRunning
    ELSE IF val = "Running" THEN Running
    ELSE IF val = "Ended" THEN Ended
    ELSE Paused

\* Timer::current_split: the segment at the index, None when there is no index
\* or the index is run.len().  Segment i is named after its position.
current_split(t) ==
    IF IsSome(t.current_split_index)
       /\ Unwrap(t.current_split_index) < run_len(t.run)
    THEN Some(Unwrap(t.current_split_index))
    ELSE None

\* From<&Timer> for TimerState, then state.action = action.
timer_state(t, action) ==
    [splits |-> [i \in 1..run_len(t.run) |-> Time_to_Time64(t.run.segments[i].split_time)],
     phase |-> t.phase,
     current_split_index |-> t.current_split_index,
     current_timing_method |-> t.current_timing_method,
     current_comparison |-> t.current_comparison,
     attempt_started |-> OptMap(adt_to_ADT, t.attempt_started),
     attempt_ended |-> OptMap(adt_to_ADT, t.attempt_ended),
     time_paused_at |-> ts_to_f64(t.time_paused_at),
     is_game_time_paused |-> t.is_game_time_paused,
     game_time_pause_time |-> OptMap(ts_to_f64, t.game_time_pause_time),
     loading_times |-> OptMap(ts_to_f64, t.loading_times),
     start_time_utc |-> adt_to_ADT(t.start_time_utc),
     start_time_with_offset_utc |-> adt_to_ADT(t.start_time_with_offset_utc),
     adjusted_start_time_utc |-> adt_to_ADT(t.adjusted_start_time_utc),
     split_name |-> IF IsSome(current_split(t))
                    THEN <<"segment", Unwrap(current_split(t))>>
                    ELSE <<"empty", 0>>,
     action |-> action]

\* Timer::save_state: the callback is called once with timer_state(action).
save_state(t, action) == <<timer_state(t, action)>>

\* ------------------------------------------------------------- Timer::new
TimerNew(run, clk) ==
    [run |-> regenerate_comparisons(fix_splits(run)),
     phase |-> NotRunning,
     current_split_index |-> None,
     current_timing_method |-> RealTime,
     current_comparison |-> PersonalBestName,
     attempt_started |-> None,
     attempt_ended |-> None,
     start_time |-> clk.now,
     start_time_with_offset |-> clk.now,
     adjusted_start_time |-> clk.now,
     time_paused_at |-> 0,
     is_game_time_paused |-> FALSE,
     game_time_pause_time |-> None,
     loading_times |-> None,
     start_time_utc |-> clk.utc,
     start_time_with_offset_utc |-> clk.utc,
     adjusted_start_time_utc |-> clk.utc,
     use_utc |-> TRUE]

\* ------------------------------------------------------------- time
is_game_time_initialized(t) == IsSome(t.loading_times)
is_game_time_paused(t) == t.is_game_time_paused
loading_times(t) == unwrap_or_default(t.loading_times)

LastSegment(t) == t.run.segments[run_len(t.run)]

\* current_time that asks whether Game Time is initialized before it asks
\* whether it is paused.
current_time_initialized_first(t, clk) ==
    LET real_time ==
            CASE t.phase = NotRunning -> Some(t.run.offset)
              [] t.phase = Running -> Some(clk.now - t.adjusted_start_time)
              [] t.phase = Paused -> Some(t.time_paused_at)
              [] t.phase = Ended -> LastSegment(t).split_time.real_time
        real_time_utc ==
            CASE t.phase = NotRunning -> Some(t.run.offset)
              [] t.phase = Running -> Some(clk.utc - t.adjusted_start_time_utc)
              [] t.phase = Paused -> Some(t.time_paused_at)
              [] t.phase = Ended -> LastSegment(t).split_time.real_time
        game_time ==
            CASE t.phase = NotRunning -> Some(t.run.offset)
              [] t.phase = Ended -> LastSegment(t).split_time.game_time
              [] OTHER ->
                    IF ~is_game_time_initialized(t) THEN None
                    ELSE IF is_game_time_paused(t) THEN t.game_time_pause_time
                         ELSE OptSub(real_time, Some(loading_times(t)))
    IN [real_time |-> IF t.use_utc THEN real_time_utc ELSE real_time,
        game_time |-> game_time]

\* Timer::current_time
current_time(t, clk) ==
    LET real_time ==
            CASE t.phase = NotRunning -> Some(t.run.offset)
              [] t.phase = Running -> Some(clk.now - t.adjusted_start_time)
              [] t.phase = Paused -> Some(t.time_paused_at)
              [] t.phase = Ended -> LastSegment(t).split_time.real_time
        real_time_utc ==
            CASE t.phase = NotRunning -> Some(t.run.offset)
              [] t.phase = Running -> Some(clk.utc - t.adjusted_start_time_utc)
              [] t.phase = Paused -> Some(t.time_paused_at)
              [] t.phase = Ended -> LastSegment(t).split_time.real_time
        game_time ==
            CASE t.phase = NotRunning -> Some(t.run.offset)
              [] t.phase = Ended -> LastSegment(t).split_time.game_time
              [] OTHER ->
                    IF is_game_time_paused(t) THEN t.game_time_pause_time
                    ELSE IF is_game_time_initialized(t)
                         THEN OptSub(real_time, Some(loading_times(t)))
                         ELSE None
    IN [real_time |-> IF t.use_utc THEN real_time_utc ELSE real_time,
        game_time |-> game_time]

\* get_pause_time that leaves out the pause under way.
get_pause_time_completed(t, clk) ==
    LET pt ==
            CASE t.phase \in {Running, Ended, Paused}
                 /\ t.start_time_with_offset # t.adjusted_start_time ->
                    Some(t.adjusted_start_time - t.start_time_with_offset)
              [] OTHER -> None
        pt_utc ==
            CASE t.phase \in {Running, Ended, Paused}
                 /\ t.start_time_with_offset_utc # t.adjusted_start_time_utc ->
                    Some(t.adjusted_start_time_utc - t.start_time_with_offset_utc)
              [] OTHER -> None
    IN IF t.use_utc THEN pt_utc ELSE pt

\* Timer::get_pause_time
get_pause_time(t, clk) ==
    LET pt ==
            CASE t.phase = Paused ->
                    Some(clk.now - t.start_time_with_offset - t.time_paused_at)
              [] t.phase \in {Running, Ended}
                 /\ t.start_time_with_offset # t.adjusted_start_time ->
                    Some(t.adjusted_start_time - t.start_time_with_offset)
              [] OTHER -> None
        pt_utc ==
            CASE t.phase = Paused ->
                    Some(clk.utc - t.start_time_with_offset_utc - t.time_paused_at)
              [] t.phase \in {Running, Ended}
                 /\ t.start_time_with_offset_utc # t.adjusted_start_time_utc ->
                    Some(t.adjusted_start_time_utc - t.start_time_with_offset_utc)
              [] OTHER -> None
    IN IF t.use_utc THEN pt_utc ELSE pt

\* Timer::current_attempt_duration
current_attempt_duration(t, clk) ==
    LET ts ==
            CASE t.phase = NotRunning -> 0
              [] t.phase \in {Paused, Running} -> clk.now - t.start_time
              [] t.phase = Ended -> Unwrap(t.attempt_ended) - Unwrap(t.attempt_started)
        ts_utc ==
            CASE t.phase = NotRunning -> 0
              [] t.phase \in {Paused, Running} -> clk.utc - t.start_time_utc
              [] t.phase = Ended -> Unwrap(t.attempt_ended) - Unwrap(t.attempt_started)
    IN IF t.use_utc THEN ts_utc ELSE ts

\* ------------------------------------------------------------- game time
\* deinitialize_game_time that leaves the loading times.
deinitialize_game_time_keep(t) == t

\* Timer::deinitialize_game_time
deinitialize_game_time(t) == [t EXCEPT !.loading_times = None]

\* Timer::set_loading_times
set_loading_times(t, time, clk) ==
    LET t1 == [t EXCEPT !.loading_times = Some(time)]
    IN IF is_game_time_paused(t1)
       THEN [t1 EXCEPT !.game_time_pause_time =
                           Some(Unwrap(current_time(t1, clk).real_time) - time)]
       ELSE t1

\* resume_game_time that takes the loading times to be zero.
resume_game_time_zero(t, clk) ==
    IF is_game_time_paused(t)
    THEN LET t1 == set_loading_times(t, 0, clk)
         IN [t1 EXCEPT !.is_game_time_paused = FALSE]
    ELSE t

\* Timer::resume_game_time
resume_game_time(t, clk) ==
    IF is_game_time_paused(t)
    THEN LET ct == current_time(t, clk)
             diff == OptSub(ct.real_time, ct.game_time)
             t1 == set_loading_times(t, unwrap_or_default(diff), clk)
         IN [t1 EXCEPT !.is_game_time_paused = FALSE]
    ELSE t

\* ------------------------------------------------------------- start, split
\* start that does not look at the phase.
start_any_phase(t, clk) ==
    LET t1 == [t EXCEPT !.phase = Running,
                        !.current_split_index = Some(0),
                        !.attempt_started = Some(clk.utc),
                        !.start_time = clk.now,
                        !.start_time_utc = clk.utc,
                        !.start_time_with_offset = clk.now - t.run.offset,
                        !.adjusted_start_time = clk.now - t.run.offset,
                        !.time_paused_at = t.run.offset]
        t2 == deinitialize_game_time(t1)
        t3 == [t2 EXCEPT !.run = start_next_run(@),
                         !.start_time_with_offset_utc = clk.utc - t.run.offset,
                         !.adjusted_start_time_utc = clk.utc - t.run.offset]
    IN Ret(t3, save_state(t3, "Start"))

\* Timer::start
start(t, clk) ==
    IF t.phase = NotRunning
    THEN LET t1 == [t EXCEPT !.phase = Running,
                             !.current_split_index = Some(0),
                             !.attempt_started = Some(clk.utc),
                             !.start_time = clk.now,
                             !.start_time_utc = clk.utc,
                             !.start_time_with_offset = clk.now - t.run.offset,
                             !.adjusted_start_time = clk.now - t.run.offset,
                             !.time_paused_at = t.run.offset]
             t2 == deinitialize_game_time(t1)
             t3 == [t2 EXCEPT !.run = start_next_run(@),
                              !.start_time_with_offset_utc = clk.utc - t.run.offset,
                              !.adjusted_start_time_utc = clk.utc - t.run.offset]
         IN Ret(t3, save_state(t3, "Start"))
    ELSE Ret(t, <<>>)

\* split that does not look at the sign of the real time.
split_any_time(t, clk) ==
    LET ct == current_time(t, clk)
    IN IF t.phase = Running /\ IsSome(ct.real_time)
       THEN LET i == Unwrap(t.current_split_index)
                t1 == [t EXCEPT !.run.segments[i + 1].split_time = ct,
                                !.current_split_index = Some(i + 1)]
                t2 == IF Some(run_len(t1.run)) = t1.current_split_index
                      THEN [t1 EXCEPT !.phase = Ended,
                                      !.attempt_ended = Some(clk.utc)]
                      ELSE t1
                t3 == [t2 EXCEPT !.run = mark_as_modified(@)]
            IN Ret(t3, save_state(t3, "Split"))
       ELSE Ret(t, <<>>)

\* split that notifies before it looks whether the attempt has ended.
split_notify_early(t, clk) ==
    LET ct == current_time(t, clk)
    IN IF t.phase = Running /\ IsSome(ct.real_time) /\ Unwrap(ct.real_time) >= 0
       THEN LET i == Unwrap(t.current_split_index)
                t1 == [t EXCEPT !.run.segments[i + 1].split_time = ct,
                                !.current_split_index = Some(i + 1)]
                t2 == IF Some(run_len(t1.run)) = t1.current_split_index
                      THEN [t1 EXCEPT !.phase = Ended,
                                      !.attempt_ended = Some(clk.utc)]
                      ELSE t1
                t3 == [t2 EXCEPT !.run = mark_as_modified(@)]
            IN Ret(t3, save_state(t1, "Split"))
       ELSE Ret(t, <<>>)

\* split that does not record the end of the attempt at the final split.
split_end_unrecorded(t, clk) ==
    LET ct == current_time(t, clk)
    IN IF t.phase = Running /\ IsSome(ct.real_time) /\ Unwrap(ct.real_time) >= 0
       THEN LET i == Unwrap(t.current_split_index)
                t1 == [t EXCEPT !.run.segments[i + 1].split_time = ct,
                                !.current_split_index = Some(i + 1)]
                t2 == IF Some(run_len(t1.run)) = t1.current_split_index
                      THEN [t1 EXCEPT !.phase = Ended]
                      ELSE t1
                t3 == [t2 EXCEPT !.run = mark_as_modified(@)]
            IN Ret(t3, save_state(t3, "Split"))
       ELSE Ret(t, <<>>)

\* Timer::split.  The custom variables copied onto the segment are not kept.
split(t, clk) ==
    LET ct == current_time(t, clk)
    IN IF t.phase = Running /\ IsSome(ct.real_time) /\ Unwrap(ct.real_time) >= 0
       THEN LET i == Unwrap(t.current_split_index)
                t1 == [t EXCEPT !.run.segments[i + 1].split_time = ct,
                                !.current_split_index = Some(i + 1)]
                t2 == IF Some(run_len(t1.run)) = t1.current_split_index
                      THEN [t1 EXCEPT !.phase = Ended,
                                      !.attempt_ended = Some(clk.utc)]
                      ELSE t1
                t3 == [t2 EXCEPT !.run = mark_as_modified(@)]
            IN Ret(t3, save_state(t3, "Split"))
       ELSE Ret(t, <<>>)

\* Timer::split_or_start
split_or_start(t, clk) ==
    IF t.phase = NotRunning THEN start(t, clk) ELSE split(t, clk)

\* skip_split that also skips the last split.
skip_split_last(t, clk) ==
    IF t.phase \in {Running, Paused}
       /\ OptLt(t.current_split_index, Some(run_len(t.run)))
    THEN LET i == Unwrap(t.current_split_index)
             t1 == [t EXCEPT !.run.segments[i + 1] = clear_split_info(@),
                             !.current_split_index = Some(i + 1)]
             t2 == [t1 EXCEPT !.run = mark_as_modified(@)]
         IN Ret(t2, save_state(t2, "Skip"))
    ELSE Ret(t, <<>>)

\* Timer::skip_split
skip_split(t, clk) ==
    IF t.phase \in {Running, Paused}
       /\ OptLt(t.current_split_index, checked_sub1(run_len(t.run)))
    THEN LET i == Unwrap(t.current_split_index)
             t1 == [t EXCEPT !.run.segments[i + 1] = clear_split_info(@),
                             !.current_split_index = Some(i + 1)]
             t2 == [t1 EXCEPT !.run = mark_as_modified(@)]
         IN Ret(t2, save_state(t2, "Skip"))
    ELSE Ret(t, <<>>)

\* undo_split that leaves the attempt Running in every phase.
undo_split_to_running(t, clk) ==
    IF t.phase # NotRunning /\ OptLt(Some(0), t.current_split_index)
    THEN LET i == Unwrap(t.current_split_index) - 1
             t1 == [t EXCEPT !.phase = Running]
             t2 == [t1 EXCEPT !.current_split_index = Some(i),
                              !.run.segments[i + 1] = clear_split_info(@)]
             t3 == [t2 EXCEPT !.run = mark_as_modified(@)]
         IN Ret(t3, save_state(t3, "Undo"))
    ELSE Ret(t, <<>>)

\* undo_split that leaves the split time of the segment it goes back to.
undo_split_keep_time(t, clk) ==
    IF t.phase # NotRunning /\ OptLt(Some(0), t.current_split_index)
    THEN LET i == Unwrap(t.current_split_index) - 1
             t1 == IF t.phase = Ended THEN [t EXCEPT !.phase = Running] ELSE t
             t2 == [t1 EXCEPT !.current_split_index = Some(i)]
             t3 == [t2 EXCEPT !.run = mark_as_modified(@)]
         IN Ret(t3, save_state(t3, "Undo"))
    ELSE Ret(t, <<>>)

\* Timer::undo_split
undo_split(t, clk) ==
    IF t.phase # NotRunning /\ OptLt(Some(0), t.current_split_index)
    THEN LET i == Unwrap(t.current_split_index) - 1
             t1 == IF t.phase = Ended THEN [t EXCEPT !.phase = Running] ELSE t
             t2 == [t1 EXCEPT !.current_split_index = Some(i),
                              !.run.segments[i + 1] = clear_split_info(@)]
             t3 == [t2 EXCEPT !.run = mark_as_modified(@)]
         IN Ret(t3, save_state(t3, "Undo"))
    ELSE Ret(t, <<>>)

\* ------------------------------------------------------------- pause, resume
\* pause that does not look at the phase.
pause_any_phase(t, clk) ==
    LET t1 == [t EXCEPT !.time_paused_at = unwrap_or_default(current_time(t, clk).real_time),
                        !.phase = Paused]
    IN Ret(t1, save_state(t1, "Pause"))

\* Timer::pause
pause(t, clk) ==
    IF t.phase = Running
    THEN LET t1 == [t EXCEPT !.time_paused_at = Unwrap(current_time(t, clk).real_time),
                             !.phase = Paused]
         IN Ret(t1, save_state(t1, "Pause"))
    ELSE Ret(t, <<>>)

\* resume that leaves the UTC anchor where it was.
resume_monotonic_only(t, clk) ==
    IF t.phase = Paused
    THEN LET t1 == [t EXCEPT !.adjusted_start_time = clk.now - t.time_paused_at,
                             !.phase = Running]
         IN Ret(t1, save_state(t1, "Resume"))
    ELSE Ret(t, <<>>)

\* resume that starts the real time again from zero.
resume_from_zero(t, clk) ==
    IF t.phase = Paused
    THEN LET t1 == [t EXCEPT !.adjusted_start_time = clk.now,
                             !.adjusted_start_time_utc = clk.utc,
                             !.phase = Running]
         IN Ret(t1, save_state(t1, "Resume"))
    ELSE Ret(t, <<>>)

\* Timer::resume
resume(t, clk) ==
    IF t.phase = Paused
    THEN LET t1 == [t EXCEPT !.adjusted_start_time = clk.now - t.time_paused_at,
                             !.adjusted_start_time_utc = clk.utc - t.time_paused_at,
                             !.phase = Running]
         IN Ret(t1, save_state(t1, "Resume"))
    ELSE Ret(t, <<>>)

\* Timer::toggle_pause
toggle_pause(t, clk) ==
    CASE t.phase = Running -> pause(t, clk)
      [] t.phase = Paused -> resume(t, clk)
      [] OTHER -> Ret(t, <<>>)

\* Timer::toggle_pause_or_start
toggle_pause_or_start(t, clk) ==
    CASE t.phase = Running -> pause(t, clk)
      [] t.phase = Paused -> resume(t, clk)
      [] t.phase = NotRunning -> start(t, clk)
      [] OTHER -> Ret(t, <<>>)

\* undo_all_pauses that leaves the adjusted start time where it was.
undo_all_pauses_keep_anchor(t, clk) ==
    CASE t.phase = Paused -> resume(t, clk)
      [] t.phase = Ended ->
            LET pause_time == Some(unwrap_or_default(get_pause_time(t, clk)))
                n == run_len(t.run)
            IN Ret([t EXCEPT !.run.segments[n].split_time =
                                TimeAdd(@, [real_time |-> pause_time,
                                            game_time |-> pause_time])],
                   <<>>)
      [] OTHER -> Ret(t, <<>>)

\* undo_all_pauses that collapses the monotonic anchor only.
undo_all_pauses_monotonic_only(t, clk) ==
    LET r == CASE t.phase = Paused -> resume(t, clk)
               [] t.phase = Ended ->
                    LET pause_time == Some(unwrap_or_default(get_pause_time(t, clk)))
                        n == run_len(t.run)
                    IN Ret([t EXCEPT !.run.segments[n].split_time =
                                        TimeAdd(@, [real_time |-> pause_time,
                                                    game_time |-> pause_time])],
                           <<>>)
               [] OTHER -> Ret(t, <<>>)
    IN Ret([r.t EXCEPT !.adjusted_start_time = r.t.start_time_with_offset],
           r.log)

\* Timer::undo_all_pauses
undo_all_pauses(t, clk) ==
    LET r == CASE t.phase = Paused -> resume(t, clk)
               [] t.phase = Ended ->
                    LET pause_time == Some(unwrap_or_default(get_pause_time(t, clk)))
                        n == run_len(t.run)
                    IN Ret([t EXCEPT !.run.segments[n].split_time =
                                        TimeAdd(@, [real_time |-> pause_time,
                                                    game_time |-> pause_time])],
                           <<>>)
               [] OTHER -> Ret(t, <<>>)
    IN Ret([r.t EXCEPT !.adjusted_start_time = r.t.start_time_with_offset,
                       !.adjusted_start_time_utc = r.t.start_time_with_offset_utc],
           r.log)

\* Timer::use_utc
use_utc(t, b) == Ret([t EXCEPT !.use_utc = b], <<>>)

\* ------------------------------------------------------------- run history
\* The run's histories are kept by their keys: the attempt history is the
\* sequence of the indices of the attempts stored, and a segment's history the
\* sequence of the indices it holds a segment time for.  The times stored with
\* them are not kept.

\* Run::add_attempt: the attempt is appended to the attempt history under the
\* next index.
add_attempt(run, time, started, ended, pause_time) ==
    [run EXCEPT !.attempt_history = Append(@, Len(@) + 1)]

\* Run::update_segment_history(current_split_index): the segments before the
\* index get an entry under the index of the last attempt of the attempt
\* history.
run_update_segment_history(run, index) ==
    LET id == IF run.attempt_history = <<>> THEN 0
              ELSE run.attempt_history[Len(run.attempt_history)]
    IN [run EXCEPT !.segments =
           [i \in 1..run_len(run) |->
               IF i <= index
               THEN [run.segments[i] EXCEPT !.segment_history = Append(@, id)]
               ELSE run.segments[i]]]

\* Run::import_pb_into_segment_history: the segments that have a PB split time
\* get an entry under index 0, which no attempt has.
import_pb_into_segment_history(run) ==
    [run EXCEPT !.segments =
        [i \in 1..run_len(run) |->
            IF run.segments[i].personal_best_split_time # TimeNew
            THEN [run.segments[i] EXCEPT !.segment_history = Append(@, 0)]
            ELSE run.segments[i]]]

\* ------------------------------------------------------------- reset
\* Timer::update_attempt_history
update_attempt_history(t, clk) ==
    LET time == IF t.phase = Ended THEN current_time(t, clk) ELSE TimeNew
        pause_time == get_pause_time(t, clk)
    IN [t EXCEPT !.run = add_attempt(@, time, t.attempt_started, t.attempt_ended,
                                     pause_time)]

\* The test of update_best_segments that takes the segment time of the
\* attempt whenever there is a split time.
NewBestLatest(best, split_time, previous) ==
    IF IsSome(split_time) THEN OptSub(split_time, previous) ELSE best

\* One timing method of one step of the loop of Timer::update_best_segments:
\* the new best segment time, given the old one, the split time and the
\* previous split time.
NewBest(best, split_time, previous) ==
    IF IsSome(split_time)
    THEN LET current_segment == OptSub(split_time, previous)
         IN IF best = None
               \/ (IsSome(current_segment) /\ Unwrap(current_segment) < Unwrap(best))
            THEN current_segment
            ELSE best
    ELSE best

\* The loop of Timer::update_best_segments from segment i on.
RECURSIVE BestSegmentsFrom(_, _, _, _)
BestSegmentsFrom(segments, i, previous_rta, previous_game_time) ==
    IF i > Len(segments) THEN segments
    ELSE LET seg == segments[i]
             st == seg.split_time
             new_best_segment ==
                 [real_time |-> NewBest(seg.best_segment_time.real_time,
                                        st.real_time, previous_rta),
                  game_time |-> NewBest(seg.best_segment_time.game_time,
                                        st.game_time, previous_game_time)]
             segs == [segments EXCEPT ![i].best_segment_time = new_best_segment]
         IN BestSegmentsFrom(segs, i + 1,
                             IF IsSome(st.real_time) THEN st.real_time
                             ELSE previous_rta,
                             IF IsSome(st.game_time) THEN st.game_time
                             ELSE previous_game_time)

\* Timer::update_best_segments
update_best_segments(t) ==
    [t EXCEPT !.run.segments = BestSegmentsFrom(@, 1, Some(0), Some(0))]

\* Timer::set_run_as_pb.  Run::clear_run_id clears a field that is not kept.
set_run_as_pb(t) ==
    LET run1 == fix_splits(import_pb_into_segment_history(t.run))
    IN [t EXCEPT !.run = [run1 EXCEPT !.segments =
           [i \in 1..run_len(run1) |->
               [run1.segments[i] EXCEPT !.personal_best_split_time =
                                            run1.segments[i].split_time]]]]

\* update_pb_splits that promotes an attempt that ties the PB.
update_pb_splits_on_tie(t) ==
    LET method == t.current_timing_method
        split_time == TimeAt(LastSegment(t).split_time, method)
        pb_split_time == TimeAt(LastSegment(t).personal_best_split_time, method)
    IN IF IsSome(split_time)
          /\ (pb_split_time = None \/ Unwrap(split_time) <= Unwrap(pb_split_time))
       THEN set_run_as_pb(t)
       ELSE t

\* Timer::update_pb_splits
update_pb_splits(t) ==
    LET method == t.current_timing_method
        split_time == TimeAt(LastSegment(t).split_time, method)
        pb_split_time == TimeAt(LastSegment(t).personal_best_split_time, method)
    IN IF IsSome(split_time)
          /\ (pb_split_time = None \/ Unwrap(split_time) < Unwrap(pb_split_time))
       THEN set_run_as_pb(t)
       ELSE t

\* Timer::update_segment_history
update_segment_history(t) ==
    IF IsSome(t.current_split_index)
    THEN [t EXCEPT !.run = run_update_segment_history(@, Unwrap(t.current_split_index))]
    ELSE t

\* reset_state that records the end of the attempt in every phase.
reset_state_end_now(t, update_times, clk) ==
    LET t1 == [t EXCEPT !.attempt_ended = Some(clk.utc)]
        t2 == resume_game_time(t1, clk)
        t3 == set_loading_times(t2, 0, clk)
    IN IF update_times
       THEN update_segment_history(
                update_pb_splits(
                    update_best_segments(
                        update_attempt_history(t3, clk))))
       ELSE t3

\* Timer::reset_state
reset_state(t, update_times, clk) ==
    LET t1 == IF t.phase # Ended THEN [t EXCEPT !.attempt_ended = Some(clk.utc)] ELSE t
        t2 == resume_game_time(t1, clk)
        t3 == set_loading_times(t2, 0, clk)
    IN IF update_times
       THEN update_segment_history(
                update_pb_splits(
                    update_best_segments(
                        update_attempt_history(t3, clk))))
       ELSE t3

\* Timer::reset_splits
reset_splits(t) ==
    LET t1 == [t EXCEPT !.phase = NotRunning,
                        !.current_split_index = None,
                        !.run.segments = [i \in 1..Len(@) |-> clear_split_info(@[i])]]
    IN [t1 EXCEPT !.run = regenerate_comparisons(fix_splits(@))]

\* reset that does not look at the phase.
reset_any_phase(t, update_splits, clk) ==
    LET t1 == reset_splits(reset_state(t, update_splits, clk))
    IN Ret(t1, save_state(t1, "Reset"))

\* Timer::reset
reset(t, update_splits, clk) ==
    IF t.phase # NotRunning
    THEN LET t1 == reset_splits(reset_state(t, update_splits, clk))
         IN Ret(t1, save_state(t1, "Reset"))
    ELSE Ret(t, <<>>)

\* Timer::reset_and_set_attempt_as_pb
reset_and_set_attempt_as_pb(t, clk) ==
    IF t.phase # NotRunning
    THEN Ret(reset_splits(set_run_as_pb(reset_state(t, TRUE, clk))), <<>>)
    ELSE Ret(t, <<>>)

\* Result<T, E>
Ok(x) == [tag |-> "Ok", value |-> x]
Err(e) == [tag |-> "Err", value |-> e]

\* What Timer::new returns: Err(CreationError::EmptyRun) for a run of no segment.
TimerNewResult(run, clk) ==
    IF run_is_empty(run) THEN Err("EmptyRun") ELSE Ok(TimerNew(run, clk))

\* replace_run that does not look whether the run is empty.
replace_run_unchecked(t, run, update_splits, clk) ==
    LET r == reset(t, update_splits, clk)
        t1 == IF \E k \in 1..Len(run.comparisons) :
                     run.comparisons[k] = r.t.current_comparison
              THEN r.t
              ELSE [r.t EXCEPT !.current_comparison = PersonalBestName]
    IN Ret([t1 EXCEPT !.run = regenerate_comparisons(fix_splits(run))], r.log)

\* Timer::replace_run: Err(run), and nothing done, when the run is empty.
replace_run(t, run, update_splits, clk) ==
    IF run_is_empty(run) THEN Ret(t, <<>>)
    ELSE LET r == reset(t, update_splits, clk)
             t1 == IF \E k \in 1..Len(run.comparisons) :
                          run.comparisons[k] = r.t.current_comparison
                   THEN r.t
                   ELSE [r.t EXCEPT !.current_comparison = PersonalBestName]
         IN Ret([t1 EXCEPT !.run = regenerate_comparisons(fix_splits(run))], r.log)

\* What Timer::replace_run returns: the run handed in as Err when it is empty,
\* else the run that was in use, as the reset left it.
replace_run_result(t, run, update_splits, clk) ==
    IF run_is_empty(run) THEN Err(run) ELSE Ok(reset(t, update_splits, clk).t.run)

\* Timer::set_run and what it returns: replace_run(run, false).map(drop)
set_run(t, run, clk) == replace_run(t, run, FALSE, clk)
set_run_result(t, run, clk) ==
    LET res == replace_run_result(t, run, FALSE, clk)
    IN IF res.tag = "Ok" THEN Ok(<<>>) ELSE res

\* Timer::replace_state, for a state with as many splits as the run has
\* segments; with any other state it panics.
replace_state(t, state, clk) ==
    LET t1 == [t EXCEPT !.run.segments =
                  [i \in 1..Len(@) |->
                      [@[i] EXCEPT !.split_time = Time64_to_Time(state.splits[i])]]]
    IN Ret([t1 EXCEPT
              !.phase = phase_from_str(state.phase),
              !.current_split_index = state.current_split_index,
              !.current_timing_method = state.current_timing_method,
              !.current_comparison = state.current_comparison,
              !.attempt_started = OptMap(ADT_to_adt, state.attempt_started),
              !.attempt_ended = OptMap(ADT_to_adt, state.attempt_started),
              !.start_time = clk.now,
              !.start_time_with_offset = clk.now,
              !.adjusted_start_time = clk.now,
              !.time_paused_at = f64_to_ts(state.time_paused_at),
              !.is_game_time_paused = state.is_game_time_paused,
              !.game_time_pause_time = OptMap(f64_to_ts, state.game_time_pause_time),
              !.loading_times = OptMap(f64_to_ts, state.loading_times),
              !.start_time_utc = ADT_to_adt(state.start_time_utc),
              !.start_time_with_offset_utc = ADT_to_adt(state.start_time_with_offset_utc),
              !.adjusted_start_time_utc = ADT_to_adt(state.adjusted_start_time_utc)],
           <<>>)

\* ------------------------------------------------------------- snapshot
\* snapshot that takes the time as of the start of the attempt.
snapshot_of_start(t, clk) ==
    [timer |-> t,
     time |-> current_time(t, [now |-> t.start_time, utc |-> t.start_time_utc])]

\* Timer::snapshot: the timer and the result of current_time() at the call.
snapshot(t, clk) == [timer |-> t, time |-> current_time(t, clk)]

\* ------------------------------------------------------------- game time, method
\* The operations on Game Time, the timing method and the comparison change
\* the timer and never call the callback.

\* Timer::initialize_game_time
initialize_game_time(t) == Ret([t EXCEPT !.loading_times = Some(loading_times(t))], <<>>)

\* pause_game_time that captures the game time only.
pause_game_time_game_only(t, clk) ==
    IF ~is_game_time_paused(t)
    THEN LET ct == current_time(t, clk)
         IN Ret([t EXCEPT !.game_time_pause_time = ct.game_time,
                          !.is_game_time_paused = TRUE],
                <<>>)
    ELSE Ret(t, <<>>)

\* Timer::pause_game_time
pause_game_time(t, clk) ==
    IF ~is_game_time_paused(t)
    THEN LET ct == current_time(t, clk)
         IN Ret([t EXCEPT !.game_time_pause_time =
                              IF IsSome(ct.game_time) THEN ct.game_time
                              ELSE ct.real_time,
                          !.is_game_time_paused = TRUE],
                <<>>)
    ELSE Ret(t, <<>>)

\* Timer::set_game_time
set_game_time(t, game_time, clk) ==
    LET t1 == IF is_game_time_paused(t)
              THEN [t EXCEPT !.game_time_pause_time = Some(game_time)]
              ELSE t
    IN Ret([t1 EXCEPT !.loading_times =
                          Some(Unwrap(current_time(t1, clk).real_time) - game_time)],
           <<>>)

\* Timer::set_current_timing_method and Timer::toggle_timing_method
set_current_timing_method(t, method) ==
    Ret([t EXCEPT !.current_timing_method = method], <<>>)
toggle_timing_method(t) ==
    Ret([t EXCEPT !.current_timing_method =
                      IF @ = RealTime THEN GameTime ELSE RealTime],
        <<>>)

\* ------------------------------------------------------------- comparisons
\* Iterator::position: the first place, counted from 0, of the comparison in
\* the run's list; None when it is not there.
position(comparisons, c) ==
    IF \E k \in 1..Len(comparisons) : comparisons[k] = c
    THEN Some((CHOOSE k \in 1..Len(comparisons) :
                  /\ comparisons[k] = c
                  /\ \A j \in 1..(k - 1) : comparisons[j] # c) - 1)
    ELSE None

\* Timer::set_current_comparison: Err(()) when the run has no such comparison.
set_current_comparison(t, comparison) ==
    IF IsSome(position(t.run.comparisons, comparison))
    THEN Ret([t EXCEPT !.current_comparison = comparison], <<>>)
    ELSE Ret(t, <<>>)
set_current_comparison_result(t, comparison) ==
    IF IsSome(position(t.run.comparisons, comparison)) THEN "Ok" ELSE "Err"

\* switch_to_next_comparison that stays on the last comparison.
switch_to_next_comparison_no_wrap(t) ==
    LET comparisons == t.run.comparisons
        len == Len(comparisons)
        index == Unwrap(position(comparisons, t.current_comparison))
        index1 == IF index + 1 < len THEN index + 1 ELSE index
    IN Ret([t EXCEPT !.current_comparison = comparisons[index1 + 1]], <<>>)

\* Timer::switch_to_next_comparison.  It panics at the unwrap when the current
\* comparison is not in the list.
switch_to_next_comparison(t) ==
    LET comparisons == t.run.comparisons
        len == Len(comparisons)
        index == Unwrap(position(comparisons, t.current_comparison))
        index1 == (index + 1) % len
    IN Ret([t EXCEPT !.current_comparison = comparisons[index1 + 1]], <<>>)

\* Timer::switch_to_previous_comparison.  It panics likewise.
switch_to_previous_comparison(t) ==
    LET comparisons == t.run.comparisons
        len == Len(comparisons)
        index == Unwrap(position(comparisons, t.current_comparison))
        index1 == (index + len - 1) % len
    IN Ret([t EXCEPT !.current_comparison = comparisons[index1 + 1]], <<>>)

\* ------------------------------------------------------------- the machine
\* Timer::new(run) for a run with at least one segment (an empty run gives
\* Err(EmptyRun) and no timer); no operation was invoked, nothing delivered.
Init ==
    /\ now = 0
    /\ now_utc = UtcEpoch
    /\ \E run \in InputRuns :
          /\ ~run_is_empty(run)
          /\ timer = TimerNew(run, [now |-> 0, utc |-> UtcEpoch])
    /\ cb_log = <<>>
    /\ running_for = 0
    /\ paused_for = 0
    /\ paused_undone = 0
    /\ ever_paused = FALSE
    /\ attempts = 0
    /\ shared = SharedInit

\* The bookkeeping of an attempt's history, kept beside the timer: it is reset
\* when an attempt starts and when the timer is back in NotRunning.
Observe(name, t1) ==
    IF t1.phase = NotRunning \/ timer.phase = NotRunning
    THEN /\ running_for' = 0
         /\ paused_for' = 0
         /\ paused_undone' = 0
         /\ ever_paused' = FALSE
    ELSE /\ UNCHANGED <<running_for, paused_for>>
         /\ paused_undone' = IF name = "undo_all_pauses" THEN paused_for
                             ELSE paused_undone
         /\ ever_paused' = (ever_paused \/ (timer.phase = Running /\ t1.phase = Paused))

\* An operation was invoked and returned r: the timer it left and what the
\* callback was given.
Call(name, r) ==
    /\ timer' = r.t
    /\ cb_log' = r.log
    /\ Observe(name, r.t)
    /\ attempts' = IF timer.phase = NotRunning /\ r.t.phase # NotRunning
                   THEN attempts + 1 ELSE attempts
    /\ UNCHANGED <<now, now_utc, shared>>

\* Both clocks advance by one tick.
Tick ==
    /\ now < MaxTime
    /\ now' = now + 1
    /\ now_utc' = now_utc + 1
    /\ running_for' = IF timer.phase = Running THEN running_for + 1 ELSE running_for
    /\ paused_for' = IF timer.phase = Paused THEN paused_for + 1 ELSE paused_for
    /\ cb_log' = <<>>
    /\ UNCHANGED <<timer, paused_undone, ever_paused, attempts, shared>>

\* A new attempt can start while fewer than MaxAttempts were.
CanStart == timer.phase = NotRunning => attempts < MaxAttempts

Start == CanStart /\ Call("start", start(timer, Clk))
Split == Call("split", split(timer, Clk))
SplitOrStart == CanStart /\ Call("split_or_start", split_or_start(timer, Clk))
SkipSplit == Call("skip_split", skip_split(timer, Clk))
UndoSplit == Call("undo_split", undo_split(timer, Clk))
Pause == Call("pause", pause(timer, Clk))
Resume == Call("resume", resume(timer, Clk))
TogglePause == Call("toggle_pause", toggle_pause(timer, Clk))
TogglePauseOrStart ==
    CanStart /\ Call("toggle_pause_or_start", toggle_pause_or_start(timer, Clk))
UndoAllPauses == Call("undo_all_pauses", undo_all_pauses(timer, Clk))
Reset == \E u \in BOOLEAN : Call("reset", reset(timer, u, Clk))
ResetAndSetAttemptAsPb ==
    Call("reset_and_set_attempt_as_pb", reset_and_set_attempt_as_pb(timer, Clk))
ReplaceRun ==
    \E run \in InputRuns, u \in BOOLEAN :
        Call("replace_run", replace_run(timer, run, u, Clk))
UseUtc == \E b \in BOOLEAN : Call("use_utc", use_utc(timer, b))

\* timer.replace_state(&timer.timer_state(Action::None)): the timer loads the
\* state it is in, as a program does that saved it and starts again.
ReplaceState ==
    Call("replace_state", replace_state(timer, timer_state(timer, "None"), Clk))

Next ==
    \/ Tick
    \/ Start
    \/ Split
    \/ SplitOrStart
    \/ SkipSplit
    \/ UndoSplit
    \/ Pause
    \/ Resume
    \/ TogglePause
    \/ TogglePauseOrStart
    \/ UndoAllPauses
    \/ Reset
    \/ ResetAndSetAttemptAsPb
    \/ ReplaceRun
    \/ UseUtc

Spec == Init /\ [][Next]_vars

\* The same operations and replace_state.
NextRS == Next \/ ReplaceState

SpecRS == Init /\ [][NextRS]_vars

\* ------------------------------------------------------------- Game Time machine
\* The game times and loading times a caller hands in.
GameTimes == {0, 1}

InitializeGameTime == Call("initialize_game_time", initialize_game_time(timer))
PauseGameTime == Call("pause_game_time", pause_game_time(timer, Clk))
ResumeGameTime == Call("resume_game_time", Ret(resume_game_time(timer, Clk), <<>>))
SetGameTime == \E g \in GameTimes : Call("set_game_time", set_game_time(timer, g, Clk))
SetLoadingTimes ==
    \E l \in GameTimes :
        Call("set_loading_times", Ret(set_loading_times(timer, l, Clk), <<>>))
SetCurrentTimingMethod ==
    \E m \in {RealTime, GameTime} :
        Call("set_current_timing_method", set_current_timing_method(timer, m))
ToggleTimingMethod == Call("toggle_timing_method", toggle_timing_method(timer))

\* An attempt with the Game Time operations and the timing method.
NextGT ==
    \/ Tick
    \/ Start
    \/ Split
    \/ Pause
    \/ Resume
    \/ UndoAllPauses
    \/ Reset
    \/ UseUtc
    \/ InitializeGameTime
    \/ PauseGameTime
    \/ ResumeGameTime
    \/ SetGameTime
    \/ SetLoadingTimes
    \/ SetCurrentTimingMethod
    \/ ToggleTimingMethod

\* Timer::new on a run of one segment and no offset.
InitGT ==
    /\ now = 0
    /\ now_utc = UtcEpoch
    /\ timer = TimerNew(RunNew(1, 0), [now |-> 0, utc |-> UtcEpoch])
    /\ cb_log = <<>>
    /\ running_for = 0
    /\ paused_for = 0
    /\ paused_undone = 0
    /\ ever_paused = FALSE
    /\ attempts = 0
    /\ shared = SharedInit

SpecGT == InitGT /\ [][NextGT]_vars

\* ------------------------------------------------------------- comparison machine
\* A run with the custom comparisons given between the personal best and the
\* generated comparison.
RunWithComparisons(n, custom) ==
    [RunNew(n, 0) EXCEPT !.comparisons = <<PersonalBestName>> \o custom \o <<BestSegmentsName>>]

CustomName == "Custom"
ComparisonRuns == {RunWithComparisons(n, custom) :
                      n \in RunLengths, custom \in {<<>>, <<CustomName>>}}

\* The names a caller asks for; the last is a comparison of no run.
ComparisonNames == {PersonalBestName, CustomName, BestSegmentsName, "Missing"}

InitCmp ==
    /\ now = 0
    /\ now_utc = UtcEpoch
    /\ \E run \in ComparisonRuns :
          /\ ~run_is_empty(run)
          /\ timer = TimerNew(run, [now |-> 0, utc |-> UtcEpoch])
    /\ cb_log = <<>>
    /\ running_for = 0
    /\ paused_for = 0
    /\ paused_undone = 0
    /\ ever_paused = FALSE
    /\ attempts = 0
    /\ shared = SharedInit

\* The TimerStates another timer saved: a timer built on one of the runs, with
\* one of that run's comparisons chosen.
SavedStates ==
    {timer_state(set_current_comparison(
                     TimerNew(run, [now |-> 0, utc |-> UtcEpoch]), c).t, "None") :
        run \in {r \in ComparisonRuns : ~run_is_empty(r)}, c \in ComparisonNames}

SetCurrentComparison ==
    \E c \in ComparisonNames :
        Call("set_current_comparison", set_current_comparison(timer, c))
\* The call panics when the current comparison is not one of the run's.
SwitchToNextComparison ==
    /\ IsSome(position(timer.run.comparisons, timer.current_comparison))
    /\ Call("switch_to_next_comparison", switch_to_next_comparison(timer))
SwitchToPreviousComparison ==
    /\ IsSome(position(timer.run.comparisons, timer.current_comparison))
    /\ Call("switch_to_previous_comparison", switch_to_previous_comparison(timer))
ReplaceRunCmp ==
    \E run \in ComparisonRuns, u \in BOOLEAN :
        Call("replace_run", replace_run(timer, run, u, Clk))
\* replace_state with a state saved elsewhere; it panics unless the state has
\* as many splits as the run has segments.
ReplaceStateFrom ==
    \E state \in SavedStates :
        /\ Len(state.splits) = run_len(timer.run)
        /\ Call("replace_state", replace_state(timer, state, Clk))

NextCmp ==
    \/ Tick
    \/ Start
    \/ Split
    \/ Pause
    \/ Resume
    \/ Reset
    \/ SetCurrentComparison
    \/ SwitchToNextComparison
    \/ SwitchToPreviousComparison
    \/ ReplaceRunCmp
    \/ ReplaceState

SpecCmp == InitCmp /\ [][NextCmp]_vars

\* The same operations and replace_state with a state saved elsewhere.
NextCmpRS == NextCmp \/ ReplaceStateFrom

SpecCmpRS == InitCmp /\ [][NextCmpRS]_vars

\* ------------------------------------------------------------- stored times machine
\* A Time with the same value on both timing methods, and one with a real time
\* only.
TimeBoth(x) == [real_time |-> Some(x), game_time |-> Some(x)]
TimeReal(x) == [real_time |-> Some(x), game_time |-> None]

\* A run of two segments as read from a splits file: the segments carry the
\* best segment times and the PB split times given, in segment order.
RunStored(bests, pbs) ==
    [RunNew(2, 0) EXCEPT
        !.segments = [i \in 1..2 |->
                        [SegmentNew EXCEPT !.best_segment_time = bests[i],
                                           !.personal_best_split_time = pbs[i]]]]

\* The runs the timer is built on: one with nothing stored, one with a PB of
\* splits 0 and 1 in real time only, one with that PB on both timing methods.
StoredRuns ==
    {RunNew(2, 0),
     RunStored(<<TimeReal(0), TimeReal(1)>>, <<TimeReal(0), TimeReal(1)>>),
     RunStored(<<TimeBoth(0), TimeBoth(1)>>, <<TimeBoth(0), TimeBoth(1)>>)}

InitPB ==
    /\ now = 0
    /\ now_utc = UtcEpoch
    /\ \E run \in StoredRuns :
          timer = TimerNew(run, [now |-> 0, utc |-> UtcEpoch])
    /\ cb_log = <<>>
    /\ running_for = 0
    /\ paused_for = 0
    /\ paused_undone = 0
    /\ ever_paused = FALSE
    /\ attempts = 0
    /\ shared = SharedInit

\* An attempt on a run with stored times, with Game Time and either timing
\* method.
NextPB ==
    \/ Tick
    \/ Start
    \/ Split
    \/ SkipSplit
    \/ UndoSplit
    \/ Pause
    \/ Resume
    \/ UndoAllPauses
    \/ Reset
    \/ ResetAndSetAttemptAsPb
    \/ InitializeGameTime
    \/ SetGameTime
    \/ ToggleTimingMethod

SpecPB == InitPB /\ [][NextPB]_vars

\* ------------------------------------------------------------- SharedTimer
\* SharedTimer = Arc<RwLock<Timer>>: a thread calls an operation through the
\* guard of the lock.  A guard from write() is exclusive, guards from read()
\* are held together, and a guard is dropped after the call has returned.

\* Operations begun on one SharedTimer.
MaxOps == 3

\* The operations the threads call.
SharedOps == {"start", "split", "pause", "resume", "reset", "snapshot"}

\* An operation that takes the lock for reading although it changes the timer.
access_shared(op) == "read"

\* The receiver an operation is declared with: &mut self needs the guard of
\* write(), &self is served by the guard of read().
access(op) == IF op = "snapshot" THEN "read" ELSE "write"

\* What the operation does to the timer and what it hands to the callback.
apply(op, t, clk) ==
    CASE op = "start" -> start(t, clk)
      [] op = "split" -> split(t, clk)
      [] op = "pause" -> pause(t, clk)
      [] op = "resume" -> resume(t, clk)
      [] op = "reset" -> reset(t, TRUE, clk)
      [] OTHER -> Ret(t, <<>>)

SharedFrame ==
    UNCHANGED <<now, now_utc, running_for, paused_for, paused_undone, ever_paused,
                attempts>>

\* timer.write().unwrap() or timer.read().unwrap() returns the guard: the
\* thread draws the next ticket.
Acquire(th, op) ==
    /\ shared.pc[th] = "idle"
    /\ shared.tickets < MaxOps
    /\ shared.writer = <<>>
    /\ access(op) = "write" => shared.readers = {}
    /\ shared' = [shared EXCEPT
                      !.writer = IF access(op) = "write" THEN <<th>> ELSE @,
                      !.readers = IF access(op) = "read" THEN @ \cup {th} ELSE @,
                      !.pc[th] = "locked",
                      !.op[th] = op,
                      !.tickets = @ + 1,
                      !.ticket[th] = shared.tickets + 1]
    /\ UNCHANGED <<timer, cb_log>>
    /\ SharedFrame

\* The body of the operation up to its call of save_state.
Mutate(th) ==
    /\ shared.pc[th] = "locked"
    /\ LET r == apply(shared.op[th], timer, Clk)
       IN /\ timer' = r.t
          /\ shared' = [shared EXCEPT !.pc[th] = "mutated", !.pending[th] = r.log]
    /\ UNCHANGED cb_log
    /\ SharedFrame

\* save_state calls the callback on the thread of the operation, before the
\* operation returns.
Notify(th) ==
    /\ shared.pc[th] = "mutated"
    /\ cb_log' = shared.pending[th]
    /\ shared' = [shared EXCEPT
                      !.pc[th] = "notified",
                      !.pending[th] = <<>>,
                      !.delivered = @ \o [i \in 1..Len(shared.pending[th]) |->
                                             <<shared.ticket[th],
                                               shared.pending[th][i].action>>]]
    /\ UNCHANGED timer
    /\ SharedFrame

\* The operation has returned and the guard is dropped.
Release(th) ==
    /\ shared.pc[th] = "notified"
    /\ shared' = [shared EXCEPT
                      !.pc[th] = "idle",
                      !.op[th] = "none",
                      !.writer = IF @ = <<th>> THEN <<>> ELSE @,
                      !.readers = @ \ {th}]
    /\ UNCHANGED <<timer, cb_log>>
    /\ SharedFrame

AcquireStep == \E th \in Threads, op \in SharedOps : Acquire(th, op)
MutateStep == \E th \in Threads : Mutate(th)
NotifyStep == \E th \in Threads : Notify(th)
ReleaseStep == \E th \in Threads : Release(th)

NextShared ==
    \/ AcquireStep
    \/ MutateStep
    \/ NotifyStep
    \/ ReleaseStep
    \/ Tick

SpecShared == Init /\ [][NextShared]_vars

\* ------------------------------------------------------------- properties
Phase == timer.phase
Index == timer.current_split_index
RunLen == run_len(timer.run)
Segments == timer.run.segments

\* The real split time of every segment is absent.
SplitsEmpty(t) == \A i \in 1..run_len(t.run) : t.run.segments[i].split_time = TimeNew

\* C1: in every state reached by the operations from Timer::new, the phase is
\* NotRunning exactly when there is no current split index, it is Ended
\* exactly when the index is run.len(), and in Running and Paused the index is
\* at least 0 and less than run.len().
PhaseIndexInv ==
    /\ (Phase = NotRunning) <=> (Index = None)
    /\ (Phase = Ended) <=> (Index = Some(RunLen))
    /\ Phase \in {Running, Paused} =>
          IsSome(Index) /\ 0 <= Unwrap(Index) /\ Unwrap(Index) < RunLen

\* A run of two segments has ended by the split of its last segment.
PhaseIndexWitness ==
    /\ Phase = Ended
    /\ RunLen = 2
    /\ Index = Some(2)
    /\ cb_log # <<>>
    /\ cb_log[1].action = "Split"

ResetLike == Reset \/ ResetAndSetAttemptAsPb \/ ReplaceRun

\* C2: the phase changes only along NotRunning->Running (start,
\* split_or_start, toggle_pause_or_start), Running->Paused (pause and the
\* toggles), Paused->Running (resume, the toggles, undo_all_pauses),
\* Running->Ended (split, also through split_or_start), Ended->Running
\* (undo_split) and any other phase->NotRunning (reset,
\* reset_and_set_attempt_as_pb, replace_run); split_or_start and
\* toggle_pause_or_start in Ended leave the phase Ended.
PhaseEdges ==
    [][ /\ (Phase = NotRunning /\ Phase' # NotRunning) =>
              /\ Phase' = Running
              /\ (Start \/ SplitOrStart \/ TogglePauseOrStart)
        /\ (Phase = Running /\ Phase' # Running) =>
              \/ Phase' = Paused /\ (Pause \/ TogglePause \/ TogglePauseOrStart)
              \/ Phase' = Ended /\ (Split \/ SplitOrStart)
              \/ Phase' = NotRunning /\ ResetLike
        /\ (Phase = Paused /\ Phase' # Paused) =>
              \/ /\ Phase' = Running
                 /\ (Resume \/ TogglePause \/ TogglePauseOrStart \/ UndoAllPauses)
              \/ Phase' = NotRunning /\ ResetLike
        /\ (Phase = Ended /\ Phase' # Ended) =>
              \/ Phase' = Running /\ UndoSplit
              \/ Phase' = NotRunning /\ ResetLike
        /\ (Phase = Ended /\ (SplitOrStart \/ TogglePauseOrStart)) => Phase' = Ended
      ]_vars

\* undo_split has taken a run of two segments from Ended back to Running.
PhaseEdgesWitness ==
    /\ Phase = Running
    /\ RunLen = 2
    /\ Index = Some(1)
    /\ IsSome(timer.attempt_ended)
    /\ cb_log # <<>>
    /\ cb_log[1].action = "Undo"

\* An operation that changed nothing and did not call the callback.
SilentNoop == timer' = timer /\ cb_log' = <<>>

\* C3: start outside NotRunning, split outside Running, pause outside
\* Running, resume outside Paused, skip_split in NotRunning or Ended or on the
\* last split, undo_split in NotRunning or at index 0, and reset in NotRunning
\* change no field of the timer or of its run and do not call the callback.
IllegalPhaseNoop ==
    [][ /\ (Phase # NotRunning /\ Start) => SilentNoop
        /\ (Phase # Running /\ Split) => SilentNoop
        /\ (Phase # Running /\ Pause) => SilentNoop
        /\ (Phase # Paused /\ Resume) => SilentNoop
        /\ ((Phase \in {NotRunning, Ended} \/ Index = Some(RunLen - 1)) /\ SkipSplit)
              => SilentNoop
        /\ ((Phase = NotRunning \/ Index = Some(0)) /\ UndoSplit) => SilentNoop
        /\ (Phase = NotRunning /\ Reset) => SilentNoop
      ]_vars

\* An operation left the callback uncalled in Paused, at index 0 of a run of
\* one segment: start, split, pause, skip_split and undo_split do nothing there.
IllegalPhaseNoopWitness ==
    /\ Phase = Paused
    /\ RunLen = 1
    /\ Index = Some(0)
    /\ cb_log = <<>>

\* The real time a read of the timer gives now.
RealTimeNow == current_time(timer, Clk).real_time

\* C4: split takes effect only in Running with a real time that is present
\* and not negative: otherwise it changes nothing; when it does, it stores
\* that real time on the current segment and advances the index by one.  No
\* segment ever holds a negative real split time.
SplitNeedsNonNegativeTime ==
    /\ [](\A i \in 1..RunLen :
            IsSome(Segments[i].split_time.real_time) =>
                Unwrap(Segments[i].split_time.real_time) >= 0)
    /\ [][ /\ (Split /\ ~(Phase = Running /\ IsSome(RealTimeNow)
                           /\ Unwrap(RealTimeNow) >= 0))
                 => SilentNoop
           /\ (Split /\ Phase = Running /\ IsSome(RealTimeNow)
                     /\ Unwrap(RealTimeNow) >= 0)
                 => /\ timer'.run.segments[Unwrap(Index) + 1].split_time.real_time
                          = RealTimeNow
                    /\ timer'.current_split_index = Some(Unwrap(Index) + 1)
         ]_vars

\* With a negative offset, a split was stored once the real time had reached 0.
SplitNeedsNonNegativeTimeWitness ==
    /\ timer.run.offset < 0
    /\ cb_log # <<>>
    /\ cb_log[1].action = "Split"
    /\ Segments[1].split_time.real_time = Some(0)

\* The real time a read of timer t gives at the clock values n and u.
RealTimeAt(t, n, u) == Unwrap(current_time(t, [now |-> n, utc |-> u]).real_time)
RealTimeRead == RealTimeAt(timer, now, now_utc)

\* C5: while no undo_all_pauses has removed pause time, the real time read in
\* Running is run.offset + (now - start instant) - (time spent Paused); pause
\* keeps the real time read at that instant, the real time read stays the same
\* from one Paused state to the next, and from one Running state to the next
\* it advances by the clock time elapsed.
PausesExcluded ==
    /\ []((Phase = Running /\ paused_undone = 0) =>
             RealTimeRead = timer.run.offset + (now - timer.start_time) - paused_for)
    /\ [][ /\ (Phase = Running /\ Pause) => RealTimeRead' = RealTimeRead
           /\ (Phase = Paused /\ Phase' = Paused) => RealTimeRead' = RealTimeRead
           /\ (Phase = Running /\ Phase' = Running /\ paused_undone' = paused_undone)
                 => RealTimeRead' - RealTimeRead = now' - now
         ]_vars

\* The attempt is Running again after a pause that lasted a tick.
PausesExcludedWitness ==
    /\ Phase = Running
    /\ paused_for = 1
    /\ paused_undone = 0
    /\ cb_log # <<>>
    /\ cb_log[1].action = "Resume"

\* C6: adjusted_start_time >= start_time_with_offset, for the monotonic anchors
\* and for the UTC anchors, in every state reached by the operations and
\* replace_state.
AnchorsOrdered ==
    /\ timer.adjusted_start_time >= timer.start_time_with_offset
    /\ timer.adjusted_start_time_utc >= timer.start_time_with_offset_utc

PauseTimeNow == get_pause_time(timer, Clk)

\* C7 as claimed: get_pause_time is the time the attempt has been paused for,
\* and None exactly when the attempt has had no pause.
PauseTimeNoneIffNoPause ==
    /\ (PauseTimeNow = None) <=> ~ever_paused
    /\ IsSome(PauseTimeNow) => Unwrap(PauseTimeNow) = paused_for

\* The time the attempt was paused for, less what undo_all_pauses removed.
PausedAccounted == paused_for - paused_undone

\* C7 as amended: get_pause_time gives the time the attempt has been paused
\* for since it started or since the last undo_all_pauses, the pause under way
\* included: always as Some in Paused, as Some in Running and Ended exactly
\* when that time is not zero, and None in NotRunning.
PauseTimeAccounted ==
    /\ Phase = Paused => PauseTimeNow = Some(PausedAccounted)
    /\ Phase \in {Running, Ended} =>
          PauseTimeNow = IF PausedAccounted # 0 THEN Some(PausedAccounted) ELSE None
    /\ Phase = NotRunning => PauseTimeNow = None

\* Running again after a pause of one tick, get_pause_time gives that tick.
PauseTimeAccountedWitness ==
    /\ Phase = Running
    /\ ever_paused
    /\ paused_for = 1
    /\ PauseTimeNow = Some(1)

\* C8: current_attempt_duration is zero in NotRunning and otherwise the time
\* the attempt has spent in phase Running: it does not grow while Paused.
AttemptDurationCountsRunning ==
    current_attempt_duration(timer, Clk) =
        IF Phase = NotRunning THEN 0 ELSE running_for

\* The conditions under which split, skip_split and undo_split take effect.
SplitEffective == Phase = Running /\ IsSome(RealTimeNow) /\ Unwrap(RealTimeNow) >= 0
SkipEffective == Phase \in {Running, Paused} /\ Unwrap(Index) < RunLen - 1
UndoEffective == Phase # NotRunning /\ Unwrap(Index) > 0

\* The callback was called once, with the timer as the operation left it and
\* the action tag a.
NotifiedOnce(a) == cb_log' = <<timer_state(timer', a)>>

\* C9: start, split, skip_split, undo_split, pause, resume and reset, when they
\* take effect, call the callback exactly once, with the tag Start, Split,
\* Skip, Undo, Pause, Resume or Reset and the TimerState of the timer as the
\* operation left it: the Split of the last segment carries the phase Ended,
\* the Reset carries NotRunning and no split time.  split_or_start,
\* toggle_pause and toggle_pause_or_start do so with the tag of the operation
\* they dispatch to.
NotifiedWithTag ==
    [][ /\ (Phase = NotRunning /\ Start) => NotifiedOnce("Start")
        /\ (SplitEffective /\ Split) =>
              /\ NotifiedOnce("Split")
              /\ Index = Some(RunLen - 1) => cb_log'[1].phase = "Ended"
        /\ (SkipEffective /\ SkipSplit) => NotifiedOnce("Skip")
        /\ (UndoEffective /\ UndoSplit) => NotifiedOnce("Undo")
        /\ (Phase = Running /\ Pause) => NotifiedOnce("Pause")
        /\ (Phase = Paused /\ Resume) => NotifiedOnce("Resume")
        /\ (Phase # NotRunning /\ Reset) =>
              /\ NotifiedOnce("Reset")
              /\ cb_log'[1].phase = "NotRunning"
              /\ cb_log'[1].current_split_index = None
              /\ \A i \in 1..Len(cb_log'[1].splits) :
                    cb_log'[1].splits[i] = Time_to_Time64(TimeNew)
        /\ (Phase = NotRunning /\ SplitOrStart) => NotifiedOnce("Start")
        /\ (SplitEffective /\ SplitOrStart) => NotifiedOnce("Split")
        /\ (Phase = Running /\ (TogglePause \/ TogglePauseOrStart))
              => NotifiedOnce("Pause")
        /\ (Phase = Paused /\ (TogglePause \/ TogglePauseOrStart))
              => NotifiedOnce("Resume")
        /\ (Phase = NotRunning /\ TogglePauseOrStart) => NotifiedOnce("Start")
      ]_vars

\* The callback was given the Split of the last segment of a run of two.
NotifiedWithTagWitness ==
    /\ Len(cb_log) = 1
    /\ cb_log[1].action = "Split"
    /\ cb_log[1].phase = "Ended"
    /\ cb_log[1].current_split_index = Some(2)
    /\ cb_log[1] = timer_state(timer, "Split")

\* C10: reset_and_set_attempt_as_pb outside NotRunning leaves the phase
\* NotRunning, no index and no split time, and calls the callback once with
\* the action Reset, as reset(true) does.
ResetAsPbNotifiesReset ==
    [][ (Phase # NotRunning /\ ResetAndSetAttemptAsPb) =>
            /\ Phase' = NotRunning
            /\ Index' = None
            /\ SplitsEmpty(timer')
            /\ NotifiedOnce("Reset")
      ]_vars

\* The fields of a TimerState that describe the timer: all but the action tag,
\* the attempt's dates and the name of the split.
Serialisable(ts) ==
    [splits |-> ts.splits,
     phase |-> ts.phase,
     current_split_index |-> ts.current_split_index,
     current_timing_method |-> ts.current_timing_method,
     current_comparison |-> ts.current_comparison,
     time_paused_at |-> ts.time_paused_at,
     is_game_time_paused |-> ts.is_game_time_paused,
     game_time_pause_time |-> ts.game_time_pause_time,
     loading_times |-> ts.loading_times,
     start_time_utc |-> ts.start_time_utc,
     start_time_with_offset_utc |-> ts.start_time_with_offset_utc,
     adjusted_start_time_utc |-> ts.adjusted_start_time_utc]

\* C11: once a notification was delivered (an attempt was started), the
\* TimerState delivered last agrees with the timer: an operation that
\* delivers nothing leaves the serialisable state as it was, and one that
\* delivers leaves the timer in the state it delivered last.  This is to hold
\* for undo_all_pauses, the Game Time operations and the timing method too.
DeliveredStateCurrent ==
    [][ /\ (attempts > 0 /\ cb_log' = <<>>) =>
              Serialisable(timer_state(timer', "None"))
                  = Serialisable(timer_state(timer, "None"))
        /\ cb_log' # <<>> =>
              Serialisable(cb_log'[Len(cb_log')])
                  = Serialisable(timer_state(timer', "None"))
      ]_vars

\* A thread is in its operation and holds a guard of the kind given.
Reading(th) == shared.pc[th] # "idle" /\ shared.op[th] = "snapshot"
Writing(th) == shared.pc[th] # "idle" /\ shared.op[th] # "snapshot"

\* C12: with several threads on one SharedTimer, the tags the callback gets
\* come in the order in which the operations got the lock, each before its
\* operation gives the lock back, and no thread that holds the lock for
\* reading sees the timer between the change an operation made and its
\* notification.
NotifiedInLockOrder ==
    /\ \A i, j \in 1..Len(shared.delivered) :
          i < j => shared.delivered[i][1] < shared.delivered[j][1]
    /\ \A th \in Threads : shared.pc[th] = "idle" => shared.pending[th] = <<>>
    /\ \A th \in Threads :
          shared.pending[th] # <<>> =>
              \A i \in 1..Len(shared.delivered) :
                  shared.delivered[i][1] < shared.ticket[th]
    /\ \A th, th2 \in Threads :
          (Reading(th) /\ Writing(th2)) => shared.pc[th2] # "mutated"
    /\ \A th, th2 \in Threads : (Writing(th) /\ th2 # th) => shared.pc[th2] = "idle"

\* Both threads have notified, one after the other: a Start and then a Pause.
NotifiedInLockOrderWitness ==
    /\ Len(shared.delivered) = 2
    /\ shared.delivered[1][2] = "Start"
    /\ shared.delivered[2][2] = "Pause"
    /\ shared.delivered[1][1] < shared.delivered[2][1]
    /\ \E th \in Threads : shared.pc[th] = "notified" /\ shared.ticket[th] = 2

\* The times of a snapshot taken now and of one taken after the step.
SnapshotTime == snapshot(timer, Clk).time
SnapshotTimeNext == snapshot(timer', [now |-> now', utc |-> now_utc']).time

\* C13 as claimed: two snapshots with no write between them give equal times,
\* in every phase and also when the clock has advanced between them.
SnapshotsEqualWithoutWrite ==
    [][Tick => SnapshotTimeNext = SnapshotTime]_vars

\* C13 as amended: of two snapshots with no write between them, the second
\* gives the times of the first in NotRunning, Paused and Ended; in Running
\* its real time is later by the clock time elapsed, and so is its game time
\* unless Game Time is paused (then it is the same) or not initialized (then
\* there is none).
SnapshotsFollowClock ==
    [][Tick =>
         /\ Phase # Running => SnapshotTimeNext = SnapshotTime
         /\ Phase = Running =>
              /\ SnapshotTimeNext.real_time
                    = Some(Unwrap(SnapshotTime.real_time) + (now' - now))
              /\ SnapshotTimeNext.game_time =
                    IF is_game_time_paused(timer) THEN SnapshotTime.game_time
                    ELSE IF is_game_time_initialized(timer)
                         THEN Some(Unwrap(SnapshotTime.game_time) + (now' - now))
                         ELSE None
      ]_vars

\* The clock has advanced in a Running attempt whose Game Time is
\* initialized and not paused.
SnapshotsFollowClockWitness ==
    /\ Phase = Running
    /\ running_for >= 1
    /\ cb_log = <<>>
    /\ is_game_time_initialized(timer)
    /\ ~is_game_time_paused(timer)
    /\ SnapshotTime.real_time = Some(running_for)

\* C14: reset(u) called twice, at once or a tick apart, leaves the timer and
\* its run as reset(u) called once leaves them, and the callback with the one
\* Reset notification of the first call (with none when the timer was
\* NotRunning), for either u and from every state.
ResetIdempotent ==
    \A u \in BOOLEAN, d \in {0, 1} :
        LET r1 == reset(timer, u, Clk)
            r2 == reset(r1.t, u, [now |-> now + d, utc |-> now_utc + d])
        IN /\ r2.t = r1.t
           /\ r1.log \o r2.log = r1.log
           /\ Len(r1.log) = IF Phase # NotRunning THEN 1 ELSE 0
           /\ \A i \in 1..Len(r1.log) : r1.log[i].action = "Reset"

\* reset(true) has ended an attempt and stored it; a second reset finds
\* nothing to do.
ResetIdempotentWitness ==
    /\ Phase = NotRunning
    /\ Len(cb_log) = 1
    /\ cb_log[1].action = "Reset"
    /\ timer.run.attempt_history # <<>>
    /\ reset(timer, TRUE, Clk) = Ret(timer, <<>>)

\* The timer that a timer built anew on the run of t is after it has loaded
\* the state of t.
RoundTrip(t, clk) == replace_state(TimerNew(t.run, clk), timer_state(t, "None"), clk).t

\* The fields by which two timers are compared, but for the end of the attempt.
Observable(t) ==
    [phase |-> t.phase,
     current_split_index |-> t.current_split_index,
     splits |-> [i \in 1..run_len(t.run) |-> t.run.segments[i].split_time],
     current_timing_method |-> t.current_timing_method,
     current_comparison |-> t.current_comparison,
     is_game_time_paused |-> t.is_game_time_paused,
     game_time_pause_time |-> t.game_time_pause_time,
     loading_times |-> t.loading_times,
     time_paused_at |-> t.time_paused_at,
     attempt_started |-> t.attempt_started,
     start_time_utc |-> t.start_time_utc,
     start_time_with_offset_utc |-> t.start_time_with_offset_utc,
     adjusted_start_time_utc |-> t.adjusted_start_time_utc]

\* C15: a timer that is not Ended, saved by timer_state(None) and loaded by
\* replace_state into a timer built on the same run, comes back with the same
\* phase, index, split times, timing method, comparison, game-time fields,
\* loading times, time_paused_at, attempt_started, attempt_ended and UTC
\* anchors.
StateRoundTrip ==
    Phase # Ended =>
        /\ Observable(RoundTrip(timer, Clk)) = Observable(timer)
        /\ RoundTrip(timer, Clk).attempt_ended = timer.attempt_ended

\* The same in every phase and without attempt_ended, which replace_state
\* does not take from the state's own field.
StateRoundTripOtherFields ==
    Observable(RoundTrip(timer, Clk)) = Observable(timer)

\* C16: replace_state(s) leaves the timer with the attempt_ended of s, absent
\* when s has none, whatever the attempt_started of s is.
AttemptEndedLoaded ==
    [][ReplaceState =>
           timer'.attempt_ended
               = OptMap(ADT_to_adt, timer_state(timer, "None").attempt_ended)]_vars

\* C17: a run of no segment is refused: Timer::new gives EmptyRun, and
\* replace_run and set_run give the run back as Err and change nothing of the
\* timer - the attempt goes on, the run stays, the callback is not called.
\* With a run that has segments, replace_run resets the attempt as reset(u)
\* does, installs the run and returns the run that was installed.
EmptyRunRejected ==
    \A run \in InputRuns, u \in BOOLEAN :
        /\ run_is_empty(run) =>
              /\ TimerNewResult(run, Clk) = Err("EmptyRun")
              /\ replace_run(timer, run, u, Clk) = Ret(timer, <<>>)
              /\ replace_run_result(timer, run, u, Clk) = Err(run)
              /\ set_run(timer, run, Clk) = Ret(timer, <<>>)
              /\ set_run_result(timer, run, Clk) = Err(run)
        /\ ~run_is_empty(run) =>
              LET r == reset(timer, u, Clk)
                  rr == replace_run(timer, run, u, Clk)
                  res == replace_run_result(timer, run, u, Clk)
              IN /\ TimerNewResult(run, Clk).tag = "Ok"
                 /\ rr.log = r.log
                 /\ rr.t.phase = NotRunning
                 /\ rr.t.current_split_index = None
                 /\ rr.t.run = run
                 /\ [rr.t EXCEPT !.run = r.t.run] = r.t
                 /\ res.tag = "Ok"
                 /\ res.value = r.t.run
                 /\ run_len(res.value) = RunLen
                 /\ res.value.attempt_count = timer.run.attempt_count
                 /\ set_run_result(timer, run, Clk) = Ok(<<>>)

\* replace_run has ended a started attempt and put a new run in: the callback
\* got the Reset, and the run installed has no attempt.
EmptyRunRejectedWitness ==
    /\ Phase = NotRunning
    /\ attempts = 1
    /\ timer.run.attempt_count = 0
    /\ Len(cb_log) = 1
    /\ cb_log[1].action = "Reset"

\* C18: the current comparison is always one of the comparisons of the run:
\* after Timer::new and after set_current_comparison, the comparison switches,
\* replace_run and replace_state; so the switches always find it.
ComparisonPresent ==
    IsSome(position(timer.run.comparisons, timer.current_comparison))

\* The timer after n calls of switch_to_next_comparison, and of
\* switch_to_previous_comparison.
RECURSIVE NextTimes(_, _)
NextTimes(t, n) == IF n = 0 THEN t ELSE NextTimes(switch_to_next_comparison(t).t, n - 1)
RECURSIVE PreviousTimes(_, _)
PreviousTimes(t, n) ==
    IF n = 0 THEN t ELSE PreviousTimes(switch_to_previous_comparison(t).t, n - 1)

\* The place of the current comparison in the list of the run.
ComparisonIndex == Unwrap(position(timer.run.comparisons, timer.current_comparison))

\* C19: switch_to_next_comparison called as many times as the run has
\* comparisons comes back to the comparison it began with, and so does
\* switch_to_previous_comparison; one call moves to the neighbour in the
\* list, around its ends, and changes nothing else.
ComparisonRotation ==
    /\ [](/\ NextTimes(timer, Len(timer.run.comparisons)) = timer
          /\ PreviousTimes(timer, Len(timer.run.comparisons)) = timer)
    /\ [][ /\ SwitchToNextComparison =>
                /\ ComparisonIndex' = (ComparisonIndex + 1) % Len(timer.run.comparisons)
                /\ timer' = [timer EXCEPT !.current_comparison = timer'.current_comparison]
           /\ SwitchToPreviousComparison =>
                /\ ComparisonIndex = (ComparisonIndex' + 1) % Len(timer.run.comparisons)
                /\ timer' = [timer EXCEPT !.current_comparison = timer'.current_comparison]
         ]_vars

\* The timer is on the last of three comparisons, from where the next is the
\* first, and one before the last is the custom one.
ComparisonRotationWitness ==
    /\ Len(timer.run.comparisons) = 3
    /\ ComparisonIndex = 2
    /\ switch_to_next_comparison(timer).t.current_comparison = PersonalBestName
    /\ switch_to_previous_comparison(timer).t.current_comparison = CustomName

\* The game time a read of the timer gives now.
GameTimeNow == current_time(timer, Clk).game_time

ResetEffective == Reset /\ Phase # NotRunning
\* start was called with no attempt under way and returned.
StartEffective == Start /\ Phase = NotRunning

GameTimePausedHasTime ==
    is_game_time_paused(timer) => IsSome(timer.game_time_pause_time)

\* Game Time was paused in a Running attempt that never initialized it: the
\* pause time is the real time of that instant.
GameTimePausedHasTimeWitness ==
    /\ Phase = Running
    /\ is_game_time_paused(timer)
    /\ ~is_game_time_initialized(timer)
    /\ now = 1
    /\ timer.game_time_pause_time = Some(1)

\* C24: reset(u) in Running, Paused or Ended leaves phase NotRunning, no
\* current split, no split time on any segment, Game Time not paused and
\* loading times of zero; attempt_ended is the instant of the reset, except in
\* Ended, where it stays what the final split recorded; the attempt history
\* gets one entry when u is true and none when it is false.
ResetEndsAttempt ==
    /\ [](\A u \in BOOLEAN :
             Phase # NotRunning =>
                LET r == reset(timer, u, Clk).t
                IN /\ r.phase = NotRunning
                   /\ r.current_split_index = None
                   /\ \A i \in 1..run_len(r.run) : r.run.segments[i].split_time = TimeNew
                   /\ ~is_game_time_paused(r)
                   /\ r.loading_times = Some(0)
                   /\ r.attempt_ended = IF Phase = Ended THEN timer.attempt_ended
                                        ELSE Some(now_utc)
                   /\ Len(r.run.attempt_history) =
                         Len(timer.run.attempt_history) + (IF u THEN 1 ELSE 0))
    /\ [][ /\ (Split /\ Phase = Running /\ timer'.phase = Ended) =>
                 timer'.attempt_ended = Some(now_utc)
           /\ (Phase = Ended /\ timer'.phase = Ended) =>
                 timer'.attempt_ended = timer.attempt_ended
         ]_vars

\* An attempt that ended at tick 1 with Game Time paused was reset with
\* update at tick 2: it is stored, its end is the instant of the final split.
ResetEndsAttemptWitness ==
    /\ Phase = NotRunning
    /\ now = 2
    /\ cb_log # <<>>
    /\ cb_log[1].action = "Reset"
    /\ timer.attempt_ended = Some(UtcEpoch + 1)
    /\ Len(timer.run.attempt_history) = 1
    /\ ~is_game_time_paused(timer)
    /\ timer.game_time_pause_time # None
    /\ timer.loading_times = Some(0)
    /\ SplitsEmpty(timer)

\* The split times of the segments of t other than segment k (counted from 1)
\* are those of the timer.
OtherSplitsKept(t, k) ==
    \A i \in 1..RunLen : i # k => t.run.segments[i].split_time = Segments[i].split_time

\* C25: undo_split with an index above 0 takes one off the index and clears
\* the split time of the segment that becomes current, and of no other; it
\* changes the phase only from Ended, to Running.  skip_split, where it acts
\* (Running or Paused, not on the last segment), clears the split time of the
\* current segment and of no other and adds one to the index; it never
\* changes the phase.
UndoSkipMoveIndex ==
    /\ []((Phase # NotRunning /\ OptLt(Some(0), Index)) =>
             LET r == undo_split(timer, Clk).t
                 k == Unwrap(Index)
             IN /\ r.current_split_index = Some(k - 1)
                /\ r.run.segments[k].split_time = TimeNew
                /\ OtherSplitsKept(r, k)
                /\ r.phase = IF Phase = Ended THEN Running ELSE Phase)
    /\ [](skip_split(timer, Clk).t.phase = Phase)
    /\ []((Phase \in {Running, Paused} /\ IsSome(Index) /\ Unwrap(Index) + 1 < RunLen) =>
             LET r == skip_split(timer, Clk).t
                 k == Unwrap(Index) + 1
             IN /\ r.current_split_index = Some(k)
                /\ r.run.segments[k].split_time = TimeNew
                /\ OtherSplitsKept(r, k))
    /\ [][ /\ (UndoSplit /\ UndoEffective) =>
                /\ timer'.current_split_index = Some(Unwrap(Index) - 1)
                /\ timer'.phase = IF Phase = Ended THEN Running ELSE Phase
           /\ (SkipSplit /\ SkipEffective) =>
                /\ timer'.current_split_index = Some(Unwrap(Index) + 1)
                /\ timer'.phase = Phase
         ]_vars

\* The first split of a run of two segments was stored at tick 1, the attempt
\* paused, and the split undone: the attempt is still Paused, on segment 0,
\* with no split time.
UndoSkipMoveIndexWitness ==
    /\ Phase = Paused
    /\ RunLen = 2
    /\ Index = Some(0)
    /\ cb_log # <<>>
    /\ cb_log[1].action = "Undo"
    /\ SplitsEmpty(timer)
    /\ timer.time_paused_at >= 1

\* C26: undo_all_pauses leaves adjusted_start_time = start_time_with_offset on
\* both clocks and the phase Running if it was Paused (otherwise as it was);
\* after it get_pause_time is None in Running and Ended, and the real time
\* read in Running is the offset and the time since the start; in Ended the
\* final split time has grown, on each timing method it has, by the pause time
\* accounted so far.  A second undo_all_pauses, at once or a tick later,
\* changes nothing.
UndoAllPausesCollapses ==
    LET r == undo_all_pauses(timer, Clk).t
    IN /\ r.adjusted_start_time = r.start_time_with_offset
       /\ r.adjusted_start_time_utc = r.start_time_with_offset_utc
       /\ r.phase = IF Phase = Paused THEN Running ELSE Phase
       /\ r.phase \in {Running, Ended} => get_pause_time(r, Clk) = None
       /\ r.phase = Running =>
             current_time(r, Clk).real_time
                = Some(timer.run.offset + (now - timer.start_time))
       /\ Phase = Ended =>
             /\ LastSegment(r).split_time =
                   TimeAdd(LastSegment(timer).split_time,
                           [real_time |-> Some(PausedAccounted),
                            game_time |-> Some(PausedAccounted)])
             /\ \A i \in 1..(RunLen - 1) : r.run.segments[i] = Segments[i]
       /\ \A d \in {0, 1} :
             undo_all_pauses(r, [now |-> now + d, utc |-> now_utc + d]).t = r

\* An attempt that was paused for a tick has ended and its pauses were
\* undone: the final split time is the time since the start, and nothing is
\* left to undo.
UndoAllPausesCollapsesWitness ==
    /\ Phase = Ended
    /\ paused_for = 1
    /\ paused_undone = 1
    /\ running_for = 0
    /\ timer.run.offset = 0
    /\ LastSegment(timer).split_time.real_time = Some(1)
    /\ timer.adjusted_start_time = timer.start_time_with_offset
    /\ get_pause_time(timer, Clk) = None

Methods == {RealTime, GameTime}

\* The split time, on one timing method, of the last segment before segment
\* i of the timer that has one; zero when none has.
Carried(i, method) ==
    LET J == {j \in 1..(i - 1) : IsSome(TimeAt(Segments[j].split_time, method))}
    IN IF J = {} THEN 0
       ELSE Unwrap(TimeAt(Segments[CHOOSE j \in J : \A k \in J : k <= j].split_time,
                          method))

Min(a, b) == IF a <= b THEN a ELSE b

\* C27: reset(true) leaves on every segment and each timing method, for a
\* segment with a split time on that method, the lesser of the old best
\* segment time and the split time less the carried previous split time (that
\* difference when there was no old best), and the old best for a segment
\* with no split time on that method; no best segment time grows or is lost.
\* reset(false) leaves every best segment time as it was.
BestSegmentsPerAxis ==
    Phase # NotRunning =>
        LET r == reset(timer, TRUE, Clk).t
            f == reset(timer, FALSE, Clk).t
        IN \A i \in 1..RunLen, method \in Methods :
              LET old == TimeAt(Segments[i].best_segment_time, method)
                  new == TimeAt(r.run.segments[i].best_segment_time, method)
                  st == TimeAt(Segments[i].split_time, method)
                  cur == Unwrap(st) - Carried(i, method)
              IN /\ IsSome(st) =>
                       new = IF IsSome(old) THEN Some(Min(Unwrap(old), cur))
                             ELSE Some(cur)
                 /\ ~IsSome(st) => new = old
                 /\ IsSome(old) => IsSome(new) /\ Unwrap(new) <= Unwrap(old)
                 /\ f.run.segments[i].best_segment_time = Segments[i].best_segment_time

\* An attempt on the run with stored real times only was reset with update:
\* the first segment has its stored best and no game best, the second a real
\* best of 0, below the stored 1, and a first game best of 0.
BestSegmentsPerAxisWitness ==
    /\ Phase = NotRunning
    /\ attempts = 1
    /\ cb_log # <<>>
    /\ cb_log[1].action = "Reset"
    /\ Len(timer.run.attempt_history) = 1
    /\ Segments[1].best_segment_time = TimeReal(0)
    /\ Segments[2].best_segment_time = TimeBoth(0)

\* The last segment of the timer has a split time on the current timing
\* method and it is below the stored PB split time, or there is none stored.
BeatsPb ==
    LET method == timer.current_timing_method
        st == TimeAt(LastSegment(timer).split_time, method)
        pb == TimeAt(LastSegment(timer).personal_best_split_time, method)
    IN IsSome(st) /\ (pb = None \/ Unwrap(st) < Unwrap(pb))

\* C28: reset(true) makes the split times of the attempt the PB split times of
\* all segments when the attempt beats the PB on the current timing method,
\* and leaves every PB split time as it was when it does not; an attempt reset
\* in Running or Paused never beats it.  reset(false) leaves every PB split
\* time as it was.
PbPromotedWhenBeaten ==
    Phase # NotRunning =>
        LET r == reset(timer, TRUE, Clk).t
            f == reset(timer, FALSE, Clk).t
        IN /\ BeatsPb =>
                 \A i \in 1..RunLen :
                    r.run.segments[i].personal_best_split_time = Segments[i].split_time
           /\ ~BeatsPb =>
                 \A i \in 1..RunLen :
                    r.run.segments[i].personal_best_split_time
                       = Segments[i].personal_best_split_time
           /\ Phase \in {Running, Paused} => ~BeatsPb
           /\ \A i \in 1..RunLen :
                 f.run.segments[i].personal_best_split_time
                    = Segments[i].personal_best_split_time

\* An attempt on the run with a stored real-time PB of 0 and 1 ended at a
\* real time that does not beat the 1, its second segment taking no time, and
\* was reset with update: the second best segment is 0 and the PB is as stored.
PbPromotedWhenBeatenWitness ==
    /\ Phase = NotRunning
    /\ attempts = 1
    /\ cb_log # <<>>
    /\ cb_log[1].action = "Reset"
    /\ Len(timer.run.attempt_history) = 1
    /\ timer.current_timing_method = RealTime
    /\ Segments[1].personal_best_split_time = TimeReal(0)
    /\ Segments[2].personal_best_split_time = TimeReal(1)
    /\ Segments[2].best_segment_time.real_time = Some(0)

\* C29: without replace_state, in Running and Paused no segment at or after
\* the current split index has a split time on either timing method, and in
\* NotRunning no segment has one: only segments passed hold split times.
SplitTimesOnlyBehind ==
    /\ Phase \in {Running, Paused} =>
          \A i \in 1..RunLen :
             i > Unwrap(Index) => Segments[i].split_time = TimeNew
    /\ Phase = NotRunning => SplitsEmpty(timer)

\* The final split of a run of two segments, stored with a game time, was
\* undone: the attempt is Running on the last segment, which has no split
\* time; the first segment has its own.
SplitTimesOnlyBehindWitness ==
    /\ Phase = Running
    /\ Index = Some(1)
    /\ cb_log # <<>>
    /\ cb_log[1].action = "Undo"
    /\ IsSome(Segments[1].split_time.real_time)
    /\ IsSome(Segments[1].split_time.game_time)
    /\ Segments[2].split_time = TimeNew
    /\ is_game_time_initialized(timer)

\* C30: without replace_state, the real split times of an attempt do not
\* decrease in segment order: of two segments that both hold one, the later
\* segment's is at least the earlier one's.
RealSplitsOrdered ==
    \A i, j \in 1..RunLen :
        (/\ i < j
         /\ IsSome(Segments[i].split_time.real_time)
         /\ IsSome(Segments[j].split_time.real_time)) =>
            Unwrap(Segments[i].split_time.real_time)
               <= Unwrap(Segments[j].split_time.real_time)

\* The first split was stored at real time 1, the attempt paused for a tick
\* and resumed, and the final split stored: both are 1.
RealSplitsOrderedWitness ==
    /\ Phase = Ended
    /\ RunLen = 2
    /\ running_for = 1
    /\ paused_for = 1
    /\ paused_undone = 0
    /\ timer.run.offset = 0
    /\ Segments[1].split_time.real_time = Some(1)
    /\ Segments[2].split_time.real_time = Some(1)

\* ------------------------------------------------------------- C31..C32
\* C31: without replace_state every value an operation unwraps is present.
\* The run has a last segment; the real time read is Some in every phase
\* (pause, set_game_time and set_loading_times unwrap it), in Ended because
\* the last segment's real split time is Some; in Ended attempt_started and
\* attempt_ended are Some and the end is not before the start
\* (current_attempt_duration unwraps both); attempt_started is Some in every
\* phase but NotRunning; and where split, skip_split or undo_split take
\* effect the index is Some and the segment they write to exists.
UnwrappedPresent ==
    /\ RunLen >= 1
    /\ IsSome(current_time(timer, Clk).real_time)
    /\ Phase = Ended =>
          /\ IsSome(LastSegment(timer).split_time.real_time)
          /\ IsSome(timer.attempt_started)
          /\ IsSome(timer.attempt_ended)
          /\ Unwrap(timer.attempt_ended) >= Unwrap(timer.attempt_started)
          /\ current_attempt_duration(timer, Clk) >= 0
    /\ Phase # NotRunning => IsSome(timer.attempt_started)
    /\ (Phase = Running /\ Unwrap(current_time(timer, Clk).real_time) >= 0) =>
          IsSome(current_split(timer))
    /\ (Phase \in {Running, Paused} /\ OptLt(Index, checked_sub1(RunLen))) =>
          IsSome(current_split(timer))
    /\ (Phase # NotRunning /\ OptLt(Some(0), Index)) =>
          /\ IsSome(Index)
          /\ Unwrap(Index) - 1 \in 0..(RunLen - 1)

\* An attempt on a run of two segments ended a tick after it started: the
\* final split time, the start and the end are there, and the attempt
\* duration read a tick later is that one tick.
UnwrappedPresentWitness ==
    /\ Phase = Ended
    /\ RunLen = 2
    /\ now = 2
    /\ timer.attempt_started = Some(UtcEpoch)
    /\ timer.attempt_ended = Some(UtcEpoch + 1)
    /\ LastSegment(timer).split_time.real_time = Some(1)
    /\ current_attempt_duration(timer, Clk) = 1

\* The timer read from the monotonic anchors and from the UTC anchors.
Monotonic == [timer EXCEPT !.use_utc = FALSE]
Utc == [timer EXCEPT !.use_utc = TRUE]

\* C32: with both clocks advancing at one rate and without replace_state, the
\* time read, the attempt duration and the pause time are the same from the
\* monotonic anchors as from the UTC anchors, each UTC anchor being the
\* monotonic one shifted by the distance of the clocks; so a call of use_utc
\* changes none of the three.
AnchorsEquivalent ==
    /\ [](/\ current_time(Monotonic, Clk) = current_time(Utc, Clk)
          /\ current_attempt_duration(Monotonic, Clk)
                = current_attempt_duration(Utc, Clk)
          /\ get_pause_time(Monotonic, Clk) = get_pause_time(Utc, Clk)
          /\ Phase # NotRunning =>
                /\ timer.start_time_utc - timer.start_time = now_utc - now
                /\ timer.start_time_with_offset_utc - timer.start_time_with_offset
                      = now_utc - now
                /\ timer.adjusted_start_time_utc - timer.adjusted_start_time
                      = now_utc - now)
    /\ [][UseUtc =>
             /\ current_time(timer', Clk) = current_time(timer, Clk)
             /\ current_attempt_duration(timer', Clk)
                   = current_attempt_duration(timer, Clk)
             /\ get_pause_time(timer', Clk) = get_pause_time(timer, Clk)
         ]_vars

\* An attempt with an offset of -1 that was paused for a tick runs again and
\* is read from the monotonic anchors: the real time is -1 and the tick it
\* ran, the pause time is the tick it was paused.
AnchorsEquivalentWitness ==
    /\ Phase = Running
    /\ ~timer.use_utc
    /\ timer.run.offset = -1
    /\ running_for = 1
    /\ paused_for = 1
    /\ RealTimeNow = Some(0)
    /\ PauseTimeNow = Some(1)
    /\ current_attempt_duration(timer, Clk) = 2

====
